---------------------------- MODULE Spec2Model ----------------------------
(***************************************************************************)
(* A model of bpnet-scraper (src/main.go): the scrape pipeline             *)
(* (lookUpLanguage, prayersForLanguage, categorize, markup,                *)
(* populateDatabase), the merge of per-language stores (mergeDBs,          *)
(* mergeDB), and main, which chooses between the two.                      *)
(*                                                                         *)
(* Spec is a scrape run, SpecRewrite a scrape run whose write is repeated, *)
(* SpecMarkup the markup of one prayer, SpecMerge a merge run and SpecMain *)
(* the program from its command line.                                      *)
(*                                                                         *)
(* A Go string is a sequence of bytes.  A byte below 0x80 is written as    *)
(* the one-character string of its ASCII character ("a", " ", "\n"); a     *)
(* byte from 0x80 up is written as its two hexadecimal digits ("D0").      *)
(* So "О" (U+041E) is <<"D0","9E">> and "…" (U+2026) is <<"E2","80","A6">>.*)
(* Strings the program only compares or passes on (tag kinds, culture      *)
(* codes, index names, error texts) are written as TLA+ strings.           *)
(*                                                                         *)
(* Every call that can fail (a fetch, a statement on a database) has a     *)
(* failing branch next to its successful one; err keeps what ended the run.*)
(***************************************************************************)
EXTENDS Integers, Sequences, FiniteSets, TLC

VARIABLES
    pc,             \* position of the process
    langIDToScrape, \* main: the -language flag
    runs,           \* how many times populateDatabase has been entered
    err,            \* what the run died of, "" while it has not
    lang,           \* scrapeLanguage: the Language found in the catalog
    pr,             \* pr.Prayers, the fetched prayers with their derived fields
    i,              \* index of the prayer the running loop is at (1-based)
    cleanedParts,   \* markup: the trimmed non-empty paragraphs of pr[i].Text
    markedParts,    \* markup: the body blocks emitted so far
    markedOpening,  \* markup: whether the opening paragraph has been emitted
    ip,             \* markup: index of the paragraph the inner loop is at
    store,          \* the file lang.ISOName + ".db"
    tx,             \* the rows inserted in the open transaction
    dbs,            \* mergeDBs: the per-language stores named by -merge
    merged,         \* the file merged.db
    k,              \* mergeDBs: index of the store being merged
    rows,           \* mergeDB: the rows of the query not yet read
    rowsErr         \* the stores whose query ended on an error: rows.Err()

envVars == <<langIDToScrape, runs, err>>
markupVars == <<cleanedParts, markedParts, markedOpening, ip>>
storeVars == <<store, tx>>
mergeVars == <<dbs, merged, k, rows, rowsErr>>
vars == <<pc, envVars, lang, pr, i, markupVars, storeVars, mergeVars>>

---------------------------------------------------------------------------
(* Byte strings *)

Min(a, b) == IF a < b THEN a ELSE b

\* s[a:b] of Go, with 0-based a (inclusive) and b (exclusive)
Slice(s, a, b) == SubSeq(s, a + 1, b)

\* s[a:] of Go
SliceFrom(s, a) == SubSeq(s, a + 1, Len(s))

\* strings.HasPrefix
HasPrefix(s, prefix) ==
    /\ Len(s) >= Len(prefix)
    /\ SubSeq(s, 1, Len(prefix)) = prefix

\* the white space strings.TrimSpace and strings.Fields look for, as far as
\* it is encoded in one byte
WhiteSpace == {" ", "\t", "\n", "\r"}

\* strings.TrimSpace: s from its first to its last byte that is no white space
TrimSpace(s) ==
    LET solid == { n \in 1..Len(s) : s[n] \notin WhiteSpace }
    IN  IF solid = {} THEN <<>>
        ELSE SubSeq(s, CHOOSE n \in solid : \A m \in solid : n <= m,
                       CHOOSE n \in solid : \A m \in solid : m <= n)

\* the maximal runs of bytes of s that hold no byte of seps, in order
FieldsOf(s, seps) ==
    LET solid(n) == n \in 1..Len(s) /\ s[n] \notin seps
        starts == { n \in 1..Len(s) : solid(n) /\ ~solid(n - 1) }
        start(f) == CHOOSE n \in starts :
                       Cardinality({ m \in starts : m < n }) = f - 1
        end(n) == CHOOSE e \in n..Len(s) :
                       /\ \A m \in n..e : solid(m)
                       /\ ~solid(e + 1)
    IN  [ f \in 1..Cardinality(starts) |-> SubSeq(s, start(f), end(start(f))) ]

\* strings.FieldsFunc(s, func(r rune) bool { return r == '\n' })
FieldsFunc(s) == FieldsOf(s, {"\n"})

\* strings.Fields
Fields(s) == FieldsOf(s, WhiteSpace)

\* the elements of ss with sep between each two
RECURSIVE Join(_, _)
Join(ss, sep) ==
    IF ss = <<>> THEN <<>>
    ELSE IF Len(ss) = 1 THEN Head(ss)
    ELSE Head(ss) \o sep \o Join(Tail(ss), sep)

---------------------------------------------------------------------------
(* The markup vocabulary *)

TagP ==
    <<"<","p",">">>
TagPClose ==
    <<"<","/","p",">">>
TagPOpening ==
    <<"<","p"," ","c","l","a","s","s","=","\"","o","p","e","n","i","n","g","\"",">">>
TagSpanVersal ==
    <<"<","s","p","a","n"," ","c","l","a","s","s","=","\"","v","e","r","s","a","l","\"",">">>
TagSpanClose ==
    <<"<","/","s","p","a","n",">">>
TagPNoindent ==
    <<"<","p"," ","c","l","a","s","s","=","\"","n","o","i","n","d","e","n","t","\"",">">>
TagBr ==
    <<"<","b","r","/",">">>
TagI ==
    <<"<","i",">">>
TagIClose ==
    <<"<","/","i",">">>
TagPComment ==
    <<"<","p"," ","c","l","a","s","s","=","\"","c","o","m","m","e","n","t","\"",">">>
TagPCommentcaps ==
    <<"<","p"," ","c","l","a","s","s","=","\"","c","o","m","m","e","n","t","c","a","p","s","\"",">">>
TagEm ==
    <<"<","e","m",">">>
TagEmClose ==
    <<"<","/","e","m",">">>

\* "…", U+2026, in UTF-8
Ellipsis ==
    <<"E2","80","A6">>

\* the length openingWords is cut at
OpeningLen == 35

---------------------------------------------------------------------------
(* markup *)

\* the paragraphs of a raw text: split at newlines, trimmed, the empty dropped
RECURSIVE CleanLoop(_)
CleanLoop(parts) ==
    IF parts = <<>> THEN <<>>
    ELSE LET trimmed == TrimSpace(Head(parts))
         IN  IF trimmed # <<>>
             THEN <<trimmed>> \o CleanLoop(Tail(parts))
             ELSE CleanLoop(Tail(parts))

CleanParts(text) == CleanLoop(FieldsFunc(text))

\* the commentcaps block with p[1:] for p[2:]
CommentcapsBlockOneHash(p) == TagPCommentcaps \o SliceFrom(p, 1) \o TagPClose

CommentcapsBlock(p) == TagPCommentcaps \o SliceFrom(p, 2) \o TagPClose

CommentBlock(p) == TagPComment \o SliceFrom(p, 1) \o TagPClose

PlainBlock(p) == TagP \o p \o TagPClose

\* p[:min] + "…", min the smaller of 35 and len(p), both counted in bytes
OpeningWordsOf(p) == Slice(p, 0, Min(OpeningLen, Len(p))) \o Ellipsis

\* the opening paragraph, p[0:1] in the versal span
OpeningBlock(p) ==
    TagPOpening \o TagSpanVersal \o Slice(p, 0, 1) \o TagSpanClose
        \o SliceFrom(p, 1) \o TagPClose

\* no '*' paragraph is taken for the citation
IsLastPartNever(idx, parts) == FALSE

\* the last '*' paragraph is the citation
IsLastPart(idx, parts) == idx = Len(parts)

\* whether an ordinary paragraph is still to open the body
OpensBody(marked) == ~marked

\* the start of the outer loop's body for prayer i
MarkupSplit ==
    /\ pc = "markup"
    /\ i <= Len(pr)
    /\ cleanedParts' = CleanParts(pr[i].Text)
    /\ markedParts' = <<>>
    /\ markedOpening' = FALSE
    /\ ip' = 1
    /\ pc' = "markupPart"
    /\ UNCHANGED <<envVars, lang, pr, i, storeVars, mergeVars>>

\* one iteration of the loop over cleanedParts
MarkupPart ==
    /\ pc = "markupPart"
    /\ ip <= Len(cleanedParts)
    /\ LET p == cleanedParts[ip]
       IN  IF HasPrefix(p, <<"#", "#">>)
           THEN /\ markedParts' = Append(markedParts, CommentcapsBlock(p))
                /\ UNCHANGED <<pr, markedOpening>>
           ELSE IF HasPrefix(p, <<"#">>)
           THEN /\ pr' = [pr EXCEPT ![i].openingWords = SliceFrom(p, 1)]
                /\ UNCHANGED <<markedParts, markedOpening>>
           ELSE IF HasPrefix(p, <<"*">>)
           THEN IF IsLastPart(ip, cleanedParts)
                THEN /\ pr' = [pr EXCEPT ![i].citation = SliceFrom(p, 1)]
                     /\ UNCHANGED <<markedParts, markedOpening>>
                ELSE /\ markedParts' = Append(markedParts, CommentBlock(p))
                     /\ UNCHANGED <<pr, markedOpening>>
           ELSE IF OpensBody(markedOpening)
                THEN /\ pr' = [pr EXCEPT ![i].openingWords = OpeningWordsOf(p)]
                     /\ markedParts' = Append(markedParts, OpeningBlock(p))
                     /\ markedOpening' = TRUE
                ELSE /\ markedParts' = Append(markedParts, PlainBlock(p))
                     /\ UNCHANGED <<pr, markedOpening>>
    /\ ip' = ip + 1
    /\ UNCHANGED <<pc, envVars, lang, i, cleanedParts, storeVars, mergeVars>>

\* the blocks joined by a blank line become the prayer's body
HtmlPrayer(blocks) == Join(blocks, <<"\n", "\n">>)

MarkupJoin ==
    /\ pc = "markupPart"
    /\ ip > Len(cleanedParts)
    /\ pr' = [pr EXCEPT ![i].htmlPrayer = HtmlPrayer(markedParts)]
    /\ i' = i + 1
    /\ pc' = "markup"
    /\ UNCHANGED <<envVars, lang, markupVars, storeVars, mergeVars>>

\* the outer loop ends: scrapeLanguage goes on to populateDatabase
MarkupDone ==
    /\ pc = "markup"
    /\ i > Len(pr)
    /\ pc' = "populateDatabase"
    /\ UNCHANGED <<envVars, lang, pr, i, markupVars, storeVars, mergeVars>>

---------------------------------------------------------------------------
(* The language catalog *)

English == 1
Icelandic == 2
German == 3
Spanish == 4
Russian == 15

LabelObligatoryEn ==
    <<"O","b","l","i","g","a","t","o","r","y">>
LabelObligatoryDe ==
    <<"P","f","l","i","c","h","t","g","e","b","e","t">>
LabelObligatoryRu ==
    <<"O","D0","B1","D1","8F","D0","B7","D0","B0","D1","82","D0","B5","D0","BB","D1","8C","D0","BD","D0","B0","D1","8F">>
LabelTabletsEn ==
    <<"T","a","b","l","e","t","s">>
LabelTabletsDe ==
    <<"T","a","b","l","e","t","e","n">>
LabelOccassionalEn ==
    <<"O","c","c","a","s","s","i","o","n","a","l">>
LabelOccassionalDe ==
    <<"B","e","s","o","n","d","e","r","e"," ","G","e","l","e","g","e","n","h","e","i","t","e","n">>
LabelOccassionalRu ==
    <<"D1","81","D0","BB","D1","83","D1","87","D0","B0","D0","B9","D0","BD","D1","8B","D0","B9">>
LabelTheFastEn ==
    <<"T","h","e"," ","F","a","s","t">>

\* a label lookup returns a string, or ends the process in log.Fatalf
Return(v) == [fatal |-> FALSE, value |-> v]
Fatalf == [fatal |-> TRUE, value |-> <<>>]

obligatory(l) ==
    CASE l.ID = English -> Return(LabelObligatoryEn)
      [] l.ID = German  -> Return(LabelObligatoryDe)
      [] l.ID = Russian -> Return(LabelObligatoryRu)
      [] OTHER          -> Fatalf

tablets(l) ==
    CASE l.ID = English -> Return(LabelTabletsEn)
      [] l.ID = German  -> Return(LabelTabletsDe)
      [] l.ID = Russian -> Return(<<>>)
      [] OTHER          -> Fatalf

occassional(l) ==
    CASE l.ID = English -> Return(LabelOccassionalEn)
      [] l.ID = German  -> Return(LabelOccassionalDe)
      [] l.ID = Russian -> Return(LabelOccassionalRu)
      [] OTHER          -> Fatalf

theFast(l) ==
    CASE l.ID = English -> Return(LabelTheFastEn)
      [] OTHER          -> Fatalf

AuthorBab ==
    <<"T","h","e"," ","B","C3","A1","b">>
AuthorBaha ==
    <<"B","a","h","C3","A1","'","u","'","l","l","C3","A1","h">>
AuthorAbdulBaha ==
    <<"`","A","b","d","u","'","l","-","B","a","h","C3","A1">>
AuthorBabEs ==
    <<"E","l"," ","B","C3","A1","b">>
AuthorBabDe ==
    <<"B","C3","A1","b">>
AuthorBahaDe ==
    <<"B","a","h","C3","A1","E2","80","99","u","E2","80","99","l","l","C3","A1","h">>
AuthorBabRu ==
    <<"D0","91","D0","B0","D0","B1">>
AuthorBahaRu ==
    <<"D0","91","D0","B0","D1","85","D0","B0","D1","83","D0","BB","D0","BB","D0","B0">>
AuthorAbdulBahaRu ==
    <<"D0","90","D0","B1","D0","B4","D1","83","D0","BB","-","D0","91","D0","B0","D1","85","D0","B0">>

\* languageAuthorMap, for the languages of the catalog below
languageAuthorMap ==
    [ en |-> <<AuthorBab, AuthorBaha, AuthorAbdulBaha>>,
      es |-> <<AuthorBabEs, AuthorBaha, AuthorAbdulBaha>>,
      de |-> <<AuthorBabDe, AuthorBahaDe, AuthorAbdulBaha>>,
      ru |-> <<AuthorBabRu, AuthorBahaRu, AuthorAbdulBahaRu>> ]

\* languageAuthorMap[iso][authorID]: a missing key of a Go map reads as the
\* zero value, the empty map and the empty string
AuthorName(iso, authorID) ==
    IF iso \in DOMAIN languageAuthorMap
       /\ authorID \in DOMAIN languageAuthorMap[iso]
    THEN languageAuthorMap[iso][authorID]
    ELSE <<>>

---------------------------------------------------------------------------
(* scrapeLanguage: the two fetches *)

\* the catalog the API answers with
Catalog ==
    { [ID |-> English, ISOName |-> "en"],
      [ID |-> German,  ISOName |-> "de"],
      [ID |-> Spanish, ISOName |-> "es"],
      [ID |-> Russian, ISOName |-> "ru"] }

NoLanguage == [ID |-> 0, ISOName |-> ""]

\* a Prayer as json.Decode leaves it: the unexported fields are empty
Prayer(id, authorID, text, tags, title) ==
    [ ID |-> id, AuthorID |-> authorID, Text |-> text, Tags |-> tags,
      Title |-> title, category |-> <<>>, citation |-> <<>>,
      htmlPrayer |-> <<>>, openingWords |-> <<>> ]

\* log.Fatal and log.Fatalf: the process exits at once, with status 1
Die(why) ==
    /\ pc' = "exit1"
    /\ err' = why

lookUpLanguage ==
    /\ pc = "lookUpLanguage"
    /\ \/ \E l \in Catalog :
            /\ l.ID = langIDToScrape
            /\ lang' = l
            /\ pc' = "prayersForLanguage"
            /\ UNCHANGED err
       \/ /\ \A l \in Catalog : l.ID # langIDToScrape
          /\ Die("language not found")
          /\ UNCHANGED lang
       \/ /\ Die("catalog fetch failed")
          /\ UNCHANGED lang
    /\ UNCHANGED <<langIDToScrape, runs, pr, i, markupVars, storeVars, mergeVars>>

tagKindGeneral == "GENERAL"
tagKindOccassional == "OCCASSIONAL"
tagKindTablets == "TABLETS"
tagKindObligatory == "OBLIGATORY"

\* categorize as it was before OCCASSIONAL set the title
CategorizedNoTitle(prayer, l) ==
    LET tag == prayer.Tags[1]
    IN  CASE tag.Kind = tagKindGeneral ->
               Return([prayer EXCEPT !.category = tag.Name])
          [] tag.Kind = tagKindObligatory ->
               IF obligatory(l).fatal THEN Fatalf
               ELSE Return([prayer EXCEPT !.category = obligatory(l).value,
                                          !.Title = tag.Name])
          [] tag.Kind = tagKindOccassional ->
               IF occassional(l).fatal THEN Fatalf
               ELSE Return([prayer EXCEPT !.category = occassional(l).value])
          [] tag.Kind = tagKindTablets ->
               IF tablets(l).fatal THEN Fatalf
               ELSE Return([prayer EXCEPT !.category = tablets(l).value])
          [] OTHER -> Fatalf

\* categorize with a default case that files the prayer under its tag's name
CategorizedDefault(prayer, l) ==
    LET tag == prayer.Tags[1]
    IN  CASE tag.Kind = tagKindObligatory ->
               IF obligatory(l).fatal THEN Fatalf
               ELSE Return([prayer EXCEPT !.category = obligatory(l).value,
                                          !.Title = tag.Name])
          [] tag.Kind = tagKindOccassional ->
               IF occassional(l).fatal THEN Fatalf
               ELSE Return([prayer EXCEPT !.category = occassional(l).value,
                                          !.Title = tag.Name])
          [] tag.Kind = tagKindTablets ->
               IF tablets(l).fatal THEN Fatalf
               ELSE Return([prayer EXCEPT !.category = tablets(l).value])
          [] OTHER -> Return([prayer EXCEPT !.category = tag.Name])

\* categorize: one iteration of the loop over pr.Prayers
Categorized(prayer, l) ==
    LET tag == prayer.Tags[1]
    IN  CASE tag.Kind = tagKindGeneral ->
               Return([prayer EXCEPT !.category = tag.Name])
          [] tag.Kind = tagKindObligatory ->
               IF obligatory(l).fatal THEN Fatalf
               ELSE Return([prayer EXCEPT !.category = obligatory(l).value,
                                          !.Title = tag.Name])
          [] tag.Kind = tagKindOccassional ->
               IF occassional(l).fatal THEN Fatalf
               ELSE Return([prayer EXCEPT !.category = occassional(l).value,
                                          !.Title = tag.Name])
          [] tag.Kind = tagKindTablets ->
               IF tablets(l).fatal THEN Fatalf
               ELSE Return([prayer EXCEPT !.category = tablets(l).value])
          [] OTHER -> Fatalf

categorize ==
    /\ pc = "categorize"
    /\ i <= Len(pr)
    /\ IF pr[i].Tags = <<>>
       THEN \* prayer.Tags[0] of an empty slice: a run-time panic
            /\ pc' = "exit2"
            /\ err' = "index out of range"
            /\ UNCHANGED <<pr, i>>
       ELSE IF Categorized(pr[i], lang).fatal
       THEN /\ Die("categorize")
            /\ UNCHANGED <<pr, i>>
       ELSE /\ pr' = [pr EXCEPT ![i] = Categorized(pr[i], lang).value]
            /\ i' = i + 1
            /\ UNCHANGED <<pc, err>>
    /\ UNCHANGED <<langIDToScrape, runs, lang, markupVars, storeVars, mergeVars>>

\* categorize returns; scrapeLanguage calls markup
categorizeDone ==
    /\ pc = "categorize"
    /\ i > Len(pr)
    /\ pc' = "markup"
    /\ i' = 1
    /\ UNCHANGED <<envVars, lang, pr, markupVars, storeVars, mergeVars>>

---------------------------------------------------------------------------
(* populateDatabase *)

\* a database file: whether it exists, whether it has the prayers table, and
\* the committed rows of the table
Absent == [file |-> FALSE, table |-> FALSE, rows |-> {}]

EmptyTable == [file |-> TRUE, table |-> TRUE, rows |-> {}]

\* merged.db, which has indexes as well
NoMerged == [file |-> FALSE, table |-> FALSE, rows |-> {}, indexes |-> {}]

EmptyMerged == [file |-> TRUE, table |-> TRUE, rows |-> {}, indexes |-> {}]

Ids(rs) == { row.id : row \in rs }

\* the row populateDatabase inserts for a prayer
RowOf(prayer, l) ==
    [ id |-> prayer.ID,
      category |-> prayer.category,
      prayerText |-> prayer.htmlPrayer,
      openingWords |-> IF prayer.Title # <<>> THEN prayer.Title
                       ELSE prayer.openingWords,
      citation |-> prayer.citation,
      author |-> AuthorName(l.ISOName, prayer.AuthorID),
      language |-> l.ISOName ]

\* os.Remove(lang.ISOName + ".db"), its error ignored, and sql.Open, which
\* touches no file
populateRemove ==
    /\ pc = "populateDatabase"
    /\ \/ store' = Absent
       \/ /\ store.file
          /\ UNCHANGED store
    /\ runs' = runs + 1
    /\ pc' = "createTable"
    /\ UNCHANGED <<langIDToScrape, err, lang, pr, i, markupVars, tx, mergeVars>>

\* the table created with IF NOT EXISTS: a table an earlier run left is kept,
\* with its rows
populateCreateTableIfNotExists ==
    /\ pc = "createTable"
    /\ \/ /\ store' = [store EXCEPT !.file = TRUE, !.table = TRUE]
          /\ pc' = "begin"
          /\ UNCHANGED err
       \/ /\ Die("create table failed")
          /\ UNCHANGED store
    /\ UNCHANGED <<langIDToScrape, runs, lang, pr, i, markupVars, tx, mergeVars>>

\* db.Exec(createTableSQL); an error is returned to scrapeLanguage, which
\* ends the process
populateCreateTable ==
    /\ pc = "createTable"
    /\ \/ /\ ~store.table
          /\ store' = EmptyTable
          /\ pc' = "begin"
          /\ UNCHANGED err
       \/ /\ store.table
          /\ Die("table prayers already exists")
          /\ UNCHANGED store
       \/ /\ ~store.table
          /\ Die("create table failed")
          /\ UNCHANGED store
    /\ UNCHANGED <<langIDToScrape, runs, lang, pr, i, markupVars, tx, mergeVars>>

\* db.Begin()
populateBegin ==
    /\ pc = "begin"
    /\ \/ /\ tx' = {}
          /\ i' = 1
          /\ pc' = "insert"
          /\ UNCHANGED err
       \/ /\ Die("begin failed")
          /\ UNCHANGED <<tx, i>>
    /\ UNCHANGED <<langIDToScrape, runs, lang, pr, markupVars, store, mergeVars>>

\* id INTEGER PRIMARY KEY: an insert of an id the table holds fails
Accepts(held, row) == row.id \notin Ids(held)

\* the insert loop without a transaction: each row is written as it is inserted
populateInsertAutocommit ==
    /\ pc = "insert"
    /\ i <= Len(pr)
    /\ LET row == RowOf(pr[i], lang)
       IN  \/ /\ Accepts(store.rows, row)
              /\ store' = [store EXCEPT !.rows = @ \cup {row}]
              /\ i' = i + 1
              /\ UNCHANGED <<pc, err>>
           \/ /\ ~Accepts(store.rows, row)
              /\ Die("UNIQUE constraint failed")
              /\ UNCHANGED <<i, store>>
           \/ /\ Accepts(store.rows, row)
              /\ Die("insert failed")
              /\ UNCHANGED <<i, store>>
    /\ UNCHANGED <<langIDToScrape, runs, lang, pr, markupVars, tx, mergeVars>>

\* one iteration of the insert loop; the process ends at a failed insert and
\* its open transaction is never committed
populateInsert ==
    /\ pc = "insert"
    /\ i <= Len(pr)
    /\ LET row == RowOf(pr[i], lang)
       IN  \/ /\ Accepts(store.rows \cup tx, row)
              /\ tx' = tx \cup {row}
              /\ i' = i + 1
              /\ UNCHANGED <<pc, err>>
           \/ /\ ~Accepts(store.rows \cup tx, row)
              /\ Die("UNIQUE constraint failed")
              /\ tx' = {}
              /\ UNCHANGED i
           \/ /\ Accepts(store.rows \cup tx, row)
              /\ Die("insert failed")
              /\ tx' = {}
              /\ UNCHANGED i
    /\ UNCHANGED <<langIDToScrape, runs, lang, pr, markupVars, store, mergeVars>>

\* tx.Commit(); on an error the deferred tx.Rollback() runs and scrapeLanguage
\* ends the process
populateCommit ==
    /\ pc = "insert"
    /\ i > Len(pr)
    /\ \/ /\ store' = [store EXCEPT !.rows = @ \cup tx]
          /\ pc' = "exit0"
          /\ UNCHANGED err
       \/ /\ Die("commit failed")
          /\ UNCHANGED store
    /\ tx' = {}
    /\ UNCHANGED <<langIDToScrape, runs, lang, pr, i, markupVars, mergeVars>>

---------------------------------------------------------------------------
(* The inputs of a scrape run *)

Tag(name, kind) == [Name |-> name, Kind |-> kind]

NameHealing ==
    <<"H","e","a","l","i","n","g">>
NameLong ==
    <<"L","o","n","g"," ","O","b","l","i","g","a","t","o","r","y"," ","P","r","a","y","e","r">>
NameNawRuz ==
    <<"N","a","w","-","R","C3","BA","z">>
NameFire ==
    <<"F","i","r","e"," ","T","a","b","l","e","t">>
TitleGiven ==
    <<"R","e","m","o","v","e","r">>

SegPadded ==
    <<" "," ","G","l","o","r","y"," ","b","e"," ","t","o"," ","T","h","e","e"," ","\t">>
Seg35 ==
    <<"O"," ","m","y"," ","G","o","d","!"," ","O"," ","m","y"," ","G","o","d","!"," ","U","n","i","t","e"," ","t","h","e"," ","h","e","a","r","t">>
SegLong ==
    <<"B","l","e","s","s","e","d"," ","i","s"," ","t","h","e"," ","s","p","o","t",","," ","a","n","d"," ","t","h","e"," ","h","o","u","s","e",","," ","a","n","d"," ","t","h","e"," ","p","l","a","c","e">>
SegCyrShort ==
    <<"D0","9E"," ","D0","91","D0","BE","D0","B6","D0","B5","!">>
SegCyrMid ==
    <<"D0","A1","D0","BA","D0","B0","D0","B6","D0","B8",":"," ","D0","91","D0","BE","D0","B3"," ","D1","83","D0","B4","D0","BE","D0","B2","D0","BB","D0","B5","D1","82","D0","B2","D0","BE","D1","80","D1","8F","D0","B5","D1","82">>
SegHash ==
    <<"#","P","r","a","y","e","r"," ","f","o","r"," ","H","e","a","l","i","n","g">>
SegHashHash ==
    <<"#","#","N","O","T","E">>
SegStar ==
    <<"*","B","a","h","C3","A1","'","u","'","l","l","C3","A1","h">>

\* the lines a raw text is made of
Segments ==
    { <<>>, <<" ">>, SegPadded, Seg35, SegLong, SegCyrShort, SegCyrMid,
      SegHash, SegHashHash, SegStar }

NL == <<"\n">>

TextHealing == SegPadded
TextTitled == SegHash \o NL \o SegCyrShort \o NL \o SegStar
TextEmpty == <<>>

PrayerPool ==
    { Prayer(1, 1, TextHealing, <<Tag(NameHealing, tagKindGeneral)>>, <<>>),
      Prayer(2, 2, TextTitled,
             <<Tag(NameLong, tagKindObligatory),
               Tag(NameHealing, tagKindGeneral)>>, TitleGiven),
      Prayer(3, 3, TextHealing,
             <<Tag(NameNawRuz, tagKindOccassional),
               Tag(NameHealing, "WEEKLY")>>, <<>>),
      Prayer(4, 4, TextEmpty, <<Tag(NameFire, tagKindTablets)>>, TitleGiven),
      Prayer(5, 1, TextHealing, <<Tag(NameHealing, "WEEKLY")>>, <<>>),
      Prayer(1, 2, TextEmpty, <<Tag(NameNawRuz, tagKindGeneral)>>, <<>>),
      Prayer(7, 1, TextHealing, <<>>, <<>>) }

\* the most prayers a fetched list holds
MaxPrayers == 2

SeqsUpTo(S, n) == UNION { [1..m -> S] : m \in 0..n }

PrayerLists == SeqsUpTo(PrayerPool, MaxPrayers)

prayersForLanguage ==
    /\ pc = "prayersForLanguage"
    /\ \/ \E ps \in PrayerLists :
            /\ pr' = ps
            /\ i' = 1
            /\ pc' = "categorize"
            /\ UNCHANGED err
       \/ /\ Die("prayers fetch failed")
          /\ UNCHANGED <<pr, i>>
    /\ UNCHANGED <<langIDToScrape, runs, lang, markupVars, storeVars, mergeVars>>

\* a store an earlier run left
OldStore ==
    [ file |-> TRUE, table |-> TRUE,
      rows |-> { [ id |-> 9, category |-> NameHealing, prayerText |-> <<"o","l","d">>,
                   openingWords |-> <<"o","l","d">>, citation |-> <<>>,
                   author |-> AuthorBab, language |-> "en" ] } ]

LangIDs == {English, Icelandic, German, Spanish, Russian}

Init ==
    /\ pc = "lookUpLanguage"
    /\ langIDToScrape \in LangIDs
    /\ runs = 0
    /\ err = ""
    /\ lang = NoLanguage
    /\ pr = <<>>
    /\ i = 1
    /\ cleanedParts = <<>>
    /\ markedParts = <<>>
    /\ markedOpening = FALSE
    /\ ip = 1
    /\ store \in {Absent, OldStore}
    /\ tx = {}
    /\ dbs = <<>>
    /\ merged = NoMerged
    /\ k = 1
    /\ rows = <<>>
    /\ rowsErr = {}

Next ==
    \/ lookUpLanguage
    \/ prayersForLanguage
    \/ categorize
    \/ categorizeDone
    \/ MarkupSplit
    \/ MarkupPart
    \/ MarkupJoin
    \/ MarkupDone
    \/ populateRemove
    \/ populateCreateTable
    \/ populateBegin
    \/ populateInsert
    \/ populateCommit

Spec == Init /\ [][Next]_vars

---------------------------------------------------------------------------
(* Claims about categorize and the label lookups *)

Kinds == {tagKindGeneral, tagKindObligatory, tagKindOccassional, tagKindTablets}

\* the languages all three labels categorize needs are registered for
Labelled == {English, German, Russian}

\* the categorize loop has dealt with prayer n
CategorizePassed(n) ==
    /\ n \in 1..Len(pr)
    /\ \/ pc = "categorize" /\ n < i
       \/ pc \in {"markup", "markupPart", "populateDatabase", "createTable",
                  "begin", "insert", "exit0"}
       \/ pc = "exit1" /\ err = "categorize" /\ n < i
       \/ pc = "exit2" /\ n < i
       \/ pc = "exit1" /\ err \notin {"categorize", "prayers fetch failed",
                                      "language not found", "catalog fetch failed"}

\* what the table of the categorizer gives a prayer, read off its first tag
CategoryByFirstTag(prayer, l) ==
    LET kind == prayer.Tags[1].Kind
    IN  IF kind = tagKindGeneral THEN prayer.Tags[1].Name
        ELSE IF kind = tagKindObligatory THEN obligatory(l).value
        ELSE IF kind = tagKindOccassional THEN occassional(l).value
        ELSE tablets(l).value

TitleByFirstTag(prayer) ==
    IF prayer.Tags[1].Kind \in {tagKindObligatory, tagKindOccassional}
    THEN prayer.Tags[1].Name
    ELSE prayer.Title

\* C1: one step of categorize on a prayer whose first tag has one of the four
\* kinds, for a language with registered labels, does not end the run and sets
\* the prayer's category and title as the first tag alone says (GENERAL: the
\* tag's name, title kept; OBLIGATORY and OCCASSIONAL: the language's label,
\* title = the tag's name; TABLETS: the language's label, title kept); it
\* changes nothing else of the prayer and no other prayer.
C1_CategorizeByFirstTag ==
    [][(/\ pc = "categorize"
        /\ i <= Len(pr)
        /\ pr[i].Tags # <<>>
        /\ pr[i].Tags[1].Kind \in Kinds
        /\ lang.ID \in Labelled)
       => /\ pc' = "categorize"
          /\ i' = i + 1
          /\ pr' = [pr EXCEPT ![i].category = CategoryByFirstTag(pr[i], lang),
                              ![i].Title = TitleByFirstTag(pr[i])]]_vars

\* an OCCASSIONAL prayer with a second tag of another kind has been
\* categorized: its title is the first tag's name, its category the label
C1_Witness ==
    /\ pc = "markup"
    /\ lang.ID = German
    /\ \E n \in 1..Len(pr) :
          /\ Len(pr[n].Tags) = 2
          /\ pr[n].Tags[1].Kind = tagKindOccassional
          /\ pr[n].Tags[2].Kind # tagKindOccassional
          /\ pr[n].Title = NameNawRuz
          /\ pr[n].category = LabelOccassionalDe

\* the fetched list holds a prayer whose first tag is of no known kind
UnknownKindAt(n) ==
    /\ n \in 1..Len(pr)
    /\ pr[n].Tags # <<>>
    /\ pr[n].Tags[1].Kind \notin Kinds

\* C2: once the fetched list holds a prayer whose first tag is of none of the
\* four kinds, the run never leaves the categorize phase other than by ending:
\* that prayer's category stays empty, markup and the write never start, and the
\* language's store file is never changed.
C2_UnknownKindAborts ==
    /\ [](\A n \in 1..Len(pr) :
            UnknownKindAt(n) =>
               /\ pc \in {"categorize", "exit1", "exit2"}
               /\ pr[n].category = <<>>
               /\ pr[n].htmlPrayer = <<>>
               /\ tx = {}
               /\ (pc = "exit1" => err = "categorize"))
    /\ [][(\E n \in 1..Len(pr) : UnknownKindAt(n)) => store' = store]_vars

\* the run has ended in categorize at the second prayer, of unknown kind, with
\* an earlier store still in place
C2_Witness ==
    /\ pc = "exit1"
    /\ err = "categorize"
    /\ i = 2
    /\ UnknownKindAt(2)
    /\ pr[1].category # <<>>
    /\ lang.ID = English
    /\ store = OldStore

\* C3: no prayer that categorize filed through a label lookup (first tag
\* OBLIGATORY, OCCASSIONAL or TABLETS) has an empty category: a lookup returns
\* a non-empty label or ends the run.
C3_NoBlankLabel ==
    \A n \in 1..Len(pr) :
        (/\ CategorizePassed(n)
         /\ pr[n].Tags[1].Kind \in Kinds \ {tagKindGeneral})
        => pr[n].category # <<>>

---------------------------------------------------------------------------
(* Claims about populateDatabase *)

\* the per-language write has ended, by success or by one of its failures
WriteEnded ==
    \/ pc = "exit0"
    \/ /\ pc = "exit1"
       /\ err \in {"table prayers already exists", "create table failed",
                   "begin failed", "UNIQUE constraint failed", "insert failed",
                   "commit failed"}

\* the rows of the run, one for every prayer
RunRows == { RowOf(pr[n], lang) : n \in 1..Len(pr) }

FullyPopulated ==
    /\ store.table
    /\ store.rows = RunRows
    /\ Cardinality(store.rows) = Len(pr)

\* C10, as claimed: after the write has ended the store is absent, or as an
\* earlier run left it, or holds one row for every prayer of the run.
C10_AbsentOrFull ==
    WriteEnded => \/ store = Absent
                  \/ store = OldStore
                  \/ FullyPopulated

\* C10, amended: after the write has ended the rows of the store are all or
\* nothing: the store is as an earlier run left it, or is absent, or exists
\* with an empty prayers table, or holds one row for every prayer of the run.
C10_AllOrNothing ==
    WriteEnded => \/ store = Absent
                  \/ store = OldStore
                  \/ store = EmptyTable
                  \/ FullyPopulated

\* the second of two inserts has failed after the first one succeeded, and the
\* store exists without a row
C10_Witness ==
    /\ pc = "exit1"
    /\ err \in {"UNIQUE constraint failed", "insert failed"}
    /\ Len(pr) = 2
    /\ i = 2
    /\ store = EmptyTable

\* the author's name is missing from languageAuthorMap for prayer n
AuthorGap(n) == AuthorName(lang.ISOName, pr[n].AuthorID) = <<>>

\* C13: no row is written, in the open transaction or in the store, with an
\* empty author name, and a write of a prayer whose author id has no entry for
\* the language's code does not return nil.
C13_MissingAuthorAborts ==
    /\ \A row \in store.rows \cup tx : row.author # <<>>
    /\ pc = "exit0" => \A n \in 1..Len(pr) : ~AuthorGap(n)

---------------------------------------------------------------------------
(* The per-language write, repeated *)

\* the most calls of populateDatabase on one store
MaxRuns == 2

\* populateDatabase has returned nil; it is called once more with the same
\* prayers and the same language, on the store it left
populateDatabaseAgain ==
    /\ pc = "exit0"
    /\ runs \in 1..(MaxRuns - 1)
    /\ pc' = "populateDatabase"
    /\ UNCHANGED <<envVars, lang, pr, i, markupVars, storeVars, mergeVars>>

NextRewrite ==
    \/ Next
    \/ populateDatabaseAgain

SpecRewrite == Init /\ [][NextRewrite]_vars

\* the store a write of the run's prayers leaves: the table and one row for
\* every prayer, whatever the store held before
Written == [file |-> TRUE, table |-> TRUE, rows |-> RunRows]

\* C11: every call of populateDatabase that returns nil, the first or a later
\* one with the same prayers and language, leaves the store with the same
\* rows, one for every prayer: rows never accumulate.  In a later call no
\* insert fails on a row the call before left, and while a later call runs the
\* store holds no row but those of the run.
C11_RewriteIsIdempotent ==
    /\ (pc = "exit0" /\ runs >= 1) =>
          /\ store = Written
          /\ Cardinality(store.rows) = Len(pr)
    /\ runs >= 2 =>
          /\ err # "UNIQUE constraint failed"
          /\ store.rows \subseteq RunRows
          /\ pc = "insert" => (store = EmptyTable /\ tx \subseteq RunRows)

\* the second write of two prayers has returned nil
C11_Witness ==
    /\ pc = "exit0"
    /\ runs = 2
    /\ Len(pr) = 2
    /\ Cardinality(store.rows) = 2
    /\ store.rows = RunRows

---------------------------------------------------------------------------
(* markup on its own: one prayer, its raw text made of up to MaxParas lines *)

\* the most lines a raw text holds
MaxParas == 3

Texts == { Join(segs, NL) : segs \in SeqsUpTo(Segments, MaxParas) }

InitMarkup ==
    /\ pc = "markup"
    /\ langIDToScrape = English
    /\ runs = 0
    /\ err = ""
    /\ lang = [ID |-> English, ISOName |-> "en"]
    /\ \E text \in Texts :
          pr = <<Prayer(1, 1, text, <<Tag(NameHealing, tagKindGeneral)>>, <<>>)>>
    /\ i = 1
    /\ cleanedParts = <<>>
    /\ markedParts = <<>>
    /\ markedOpening = FALSE
    /\ ip = 1
    /\ store = Absent
    /\ tx = {}
    /\ dbs = <<>>
    /\ merged = NoMerged
    /\ k = 1
    /\ rows = <<>>
    /\ rowsErr = {}

NextMarkup ==
    \/ MarkupSplit
    \/ MarkupPart
    \/ MarkupJoin
    \/ MarkupDone

SpecMarkup == InitMarkup /\ [][NextMarkup]_vars

---------------------------------------------------------------------------
(* Claims about markup *)

\* markup has just finished prayer i - 1: cleanedParts and markedParts are
\* still those of that prayer
MarkedUp == pc = "markup" /\ i > 1

StartsWithStar(p) == HasPrefix(p, <<"*">>)

IsSingleHash(p) == HasPrefix(p, <<"#">>) /\ ~HasPrefix(p, <<"#", "#">>)

IsOrdinary(p) == ~HasPrefix(p, <<"#">>) /\ ~HasPrefix(p, <<"*">>)

\* the '*' paragraphs that are not the last paragraph, in order
InnerStars(parts) ==
    SelectSeq(SubSeq(parts, 1, Len(parts) - 1), StartsWithStar)

IsCommentBlock(b) == HasPrefix(b, TagPComment)

StripStar(ps) == [n \in 1..Len(ps) |-> TagPComment \o Tail(ps[n]) \o TagPClose]

EndsWithStar(parts) == parts # <<>> /\ StartsWithStar(parts[Len(parts)])

\* the paragraphs that give the body a block: all but the single-'#' ones and
\* a last '*' one
BlockCount(parts) ==
    Cardinality({ n \in 1..Len(parts) :
                    /\ ~IsSingleHash(parts[n])
                    /\ ~(n = Len(parts) /\ StartsWithStar(parts[n])) })

\* C4: after markup of a text, citation is what follows the '*' of the last
\* paragraph when that paragraph starts with '*', and empty otherwise; the
\* comment blocks of the body are exactly the '*' paragraphs that are not
\* last, in order, and the last '*' paragraph gives the body no block.
C4_LastStarIsCitation ==
    MarkedUp =>
       /\ pr[i - 1].citation =
             IF EndsWithStar(cleanedParts)
             THEN Tail(cleanedParts[Len(cleanedParts)])
             ELSE <<>>
       /\ SelectSeq(markedParts, IsCommentBlock) = StripStar(InnerStars(cleanedParts))
       /\ Len(markedParts) = BlockCount(cleanedParts)

\* three '*' paragraphs: two comment blocks and the citation
C4_Witness ==
    /\ MarkedUp
    /\ Len(cleanedParts) = 3
    /\ \A n \in 1..3 : StartsWithStar(cleanedParts[n])
    /\ Len(markedParts) = 2
    /\ pr[i - 1].citation = Tail(SegStar)

---------------------------------------------------------------------------
(* Characters: the text is UTF-8 *)

\* the first bytes of the two-byte and three-byte characters of the inputs
Lead == {"C2", "C3", "D0", "D1", "E2"}

\* a byte from 0x80 up that starts no character continues one
IsContinuation(b) == Len(b) = 2 /\ b \notin Lead

\* the positions of s at which a character starts
CharStarts(s) == { n \in 1..Len(s) : ~IsContinuation(s[n]) }

\* the length of s in characters
CharLen(s) == Cardinality(CharStarts(s))

\* the first n characters of s, all of s when it has no more than n
CharPrefix(s, n) ==
    IF CharLen(s) <= n THEN s
    ELSE SubSeq(s, 1, (CHOOSE m \in CharStarts(s) :
                          Cardinality({ x \in CharStarts(s) : x < m }) = n) - 1)

FirstOrdinary(parts) ==
    parts[CHOOSE n \in 1..Len(parts) :
             /\ IsOrdinary(parts[n])
             /\ \A m \in 1..(n - 1) : ~IsOrdinary(parts[m])]

HasOrdinary(parts) == \E n \in 1..Len(parts) : IsOrdinary(parts[n])

HasSingleHash(parts) == \E n \in 1..Len(parts) : IsSingleHash(parts[n])

LastSingleHash(parts) ==
    parts[CHOOSE n \in 1..Len(parts) :
             /\ IsSingleHash(parts[n])
             /\ \A m \in (n + 1)..Len(parts) : ~IsSingleHash(parts[m])]

\* C5: after markup of a text without a single-'#' paragraph, openingWords is
\* the first 35 characters of the first ordinary paragraph followed by the
\* ellipsis, or the whole paragraph followed by the ellipsis when it has fewer
\* than 35 characters, whatever the script of the paragraph.
C5_OpeningWordsInCharacters ==
    (MarkedUp /\ ~HasSingleHash(cleanedParts) /\ HasOrdinary(cleanedParts))
    => pr[i - 1].openingWords =
          CharPrefix(FirstOrdinary(cleanedParts), OpeningLen) \o Ellipsis

\* C6: after markup of a text with a paragraph and no paragraph starting with
\* '#' or '*', the body has one block for each paragraph, the first the
\* opening block with the paragraph's first character in the versal span, the
\* later ones plain <p> blocks; openingWords is a prefix of the first paragraph
\* followed by the ellipsis and citation is empty.
C6_MarkerFreeText ==
    (/\ MarkedUp
     /\ cleanedParts # <<>>
     /\ \A n \in 1..Len(cleanedParts) : IsOrdinary(cleanedParts[n]))
    => LET first == cleanedParts[1]
           versal == CharPrefix(first, 1)
       IN  /\ Len(markedParts) = Len(cleanedParts)
           /\ markedParts[1] =
                 TagPOpening \o TagSpanVersal \o versal \o TagSpanClose
                    \o SubSeq(first, Len(versal) + 1, Len(first)) \o TagPClose
           /\ \A n \in 2..Len(cleanedParts) :
                 markedParts[n] = TagP \o cleanedParts[n] \o TagPClose
           /\ \E m \in 0..Len(first) :
                 pr[i - 1].openingWords = SubSeq(first, 1, m) \o Ellipsis
           /\ pr[i - 1].citation = <<>>
           /\ markedOpening

\* C7: after markup of a text with a single-'#' paragraph, openingWords is
\* what follows the '#' of the last such paragraph, wherever it stands, and
\* no single-'#' paragraph gives the body a block.
C7_HashIsOpeningWords ==
    (MarkedUp /\ HasSingleHash(cleanedParts))
    => /\ pr[i - 1].openingWords = Tail(LastSingleHash(cleanedParts))
       /\ Len(markedParts) = BlockCount(cleanedParts)

NotSingleHash(p) == ~IsSingleHash(p)

\* the blocks of a text without an ordinary paragraph: one for every '##'
\* paragraph and every '*' paragraph that is not the last paragraph, in order
MarkerBlocks(parts) ==
    LET inner == IF EndsWithStar(parts)
                 THEN SubSeq(parts, 1, Len(parts) - 1) ELSE parts
        kept == SelectSeq(inner, NotSingleHash)
    IN  [ n \in 1..Len(kept) |->
            IF StartsWithStar(kept[n])
            THEN TagPComment \o Tail(kept[n]) \o TagPClose
            ELSE TagPCommentcaps \o Tail(Tail(kept[n])) \o TagPClose ]

\* markup goes on without an error
MarkupRuns == pc \in {"markup", "markupPart", "populateDatabase"} /\ err = ""

\* C14, as claimed: after markup of a text without an ordinary paragraph (the
\* text is empty, or every paragraph of it starts with '#', '##' or '*') the
\* body is empty and openingWords is unset, and markup raised no error.
C14_NoOrdinaryLeavesEmpty ==
    /\ MarkupRuns
    /\ (MarkedUp /\ ~HasOrdinary(cleanedParts)) =>
          /\ pr[i - 1].htmlPrayer = <<>>
          /\ pr[i - 1].openingWords = <<>>

\* C14, amended: after markup of a text without an ordinary paragraph, markup
\* has raised no error and has opened no body; the body holds the commentcaps
\* blocks of the '##' paragraphs and the comment blocks of the '*' paragraphs
\* that are not last, in order and joined by blank lines, and is empty when
\* there is none; openingWords is what follows the '#' of the last single-'#'
\* paragraph, and is unset when there is none.
C14_NoOrdinaryLeavesMarkers ==
    /\ MarkupRuns
    /\ (MarkedUp /\ ~HasOrdinary(cleanedParts)) =>
          /\ ~markedOpening
          /\ markedParts = MarkerBlocks(cleanedParts)
          /\ pr[i - 1].htmlPrayer = Join(MarkerBlocks(cleanedParts), <<"\n", "\n">>)
          /\ pr[i - 1].openingWords =
                IF HasSingleHash(cleanedParts)
                THEN Tail(LastSingleHash(cleanedParts))
                ELSE <<>>

\* a '#' paragraph, a '##' paragraph and a last '*' paragraph: the body is
\* the commentcaps block and openingWords is the '#' paragraph
C14_Witness ==
    /\ MarkedUp
    /\ cleanedParts = <<SegHash, SegHashHash, SegStar>>
    /\ pr[i - 1].htmlPrayer = TagPCommentcaps \o <<"N", "O", "T", "E">> \o TagPClose
    /\ pr[i - 1].openingWords = Tail(SegHash)
    /\ pr[i - 1].citation = Tail(SegStar)

---------------------------------------------------------------------------
(* mergeDBs and mergeDB *)

\* strings.Replace(s, old, "", -1): the occurrences of old, found from the
\* left and not overlapping, taken out of s
RECURSIVE Remove(_, _)
Remove(s, old) ==
    LET occ == { n \in 1..(Len(s) - Len(old) + 1) :
                    SubSeq(s, n, n + Len(old) - 1) = old }
    IN  IF occ = {} THEN s
        ELSE LET n == CHOOSE x \in occ : \A y \in occ : x <= y
             IN  SubSeq(s, 1, n - 1)
                    \o Remove(SubSeq(s, n + Len(old), Len(s)), old)

\* the tags in the order mergeDB replaces them
StripOrderNoItalic ==
    <<TagP, TagPClose, TagPOpening, TagSpanVersal, TagSpanClose, TagPNoindent,
      TagBr, TagIClose, TagPComment, TagPCommentcaps, TagEm, TagEmClose>>

StripOrder ==
    <<TagP, TagPClose, TagPOpening, TagSpanVersal, TagSpanClose, TagPNoindent,
      TagBr, TagI, TagIClose, TagPComment, TagPCommentcaps, TagEm, TagEmClose>>

RECURSIVE RemoveEach(_, _)
RemoveEach(s, tags) ==
    IF tags = <<>> THEN s
    ELSE RemoveEach(Remove(s, Head(tags)), Tail(tags))

SearchText(prayerText) == RemoveEach(prayerText, StripOrder)

\* the row of merged.db made of a row of a per-language store, its words
\* counted in the body instead of in the search text
MergedRowBodyWords(prayer) ==
    [ id |-> prayer.id, category |-> prayer.category,
      prayerText |-> prayer.prayerText, openingWords |-> prayer.openingWords,
      citation |-> prayer.citation, author |-> prayer.author,
      language |-> prayer.language,
      wordCount |-> Len(Fields(prayer.prayerText)),
      searchText |-> SearchText(prayer.prayerText) ]

\* the row of merged.db made of a row of a per-language store
MergedRow(prayer) ==
    [ id |-> prayer.id, category |-> prayer.category,
      prayerText |-> prayer.prayerText, openingWords |-> prayer.openingWords,
      citation |-> prayer.citation, author |-> prayer.author,
      language |-> prayer.language,
      wordCount |-> Len(Fields(SearchText(prayer.prayerText))),
      searchText |-> SearchText(prayer.prayerText) ]

\* SELECT * FROM prayers reads a table by its primary key
RECURSIVE ById(_)
ById(rs) ==
    IF rs = {} THEN <<>>
    ELSE LET first == CHOOSE row \in rs : \A other \in rs : row.id <= other.id
         IN  <<first>> \o ById(rs \ {first})

\* os.Remove("merged.db"), its error ignored, and sql.Open
mergeRemove ==
    /\ pc = "mergeDBs"
    /\ \/ merged' = NoMerged
       \/ /\ merged.file
          /\ UNCHANGED merged
    /\ pc' = "mergeCreateTable"
    /\ UNCHANGED <<envVars, lang, pr, i, markupVars, storeVars, dbs, rowsErr, k, rows>>

\* db.Exec(createTableSQL)
mergeCreateTable ==
    /\ pc = "mergeCreateTable"
    /\ \/ /\ ~merged.table
          /\ merged' = EmptyMerged
          /\ k' = 1
          /\ pc' = "mergeDB"
          /\ UNCHANGED err
       \/ /\ merged.table
          /\ Die("table prayers already exists")
          /\ UNCHANGED <<merged, k>>
       \/ /\ ~merged.table
          /\ Die("create table failed")
          /\ UNCHANGED <<merged, k>>
    /\ UNCHANGED <<langIDToScrape, runs, lang, pr, i, markupVars, storeVars, dbs, rowsErr, rows>>

\* mergeDB up to its loop: the query on the store and mergedDB.Begin()
mergeDBBegin ==
    /\ pc = "mergeDB"
    /\ k <= Len(dbs)
    /\ \/ /\ rows' = ById(dbs[k].rows)
          /\ tx' = {}
          /\ pc' = "mergeRow"
          /\ UNCHANGED err
       \/ /\ Die("query failed")
          /\ UNCHANGED <<rows, tx>>
       \/ /\ Die("begin failed")
          /\ UNCHANGED <<rows, tx>>
    /\ UNCHANGED <<langIDToScrape, runs, lang, pr, i, markupVars, store, dbs, rowsErr, merged, k>>

\* one iteration of the loop over the rows of the store
mergeRow ==
    /\ pc = "mergeRow"
    /\ rows # <<>>
    /\ LET row == MergedRow(Head(rows))
       IN  \/ /\ Accepts(merged.rows \cup tx, row)
              /\ tx' = tx \cup {row}
              /\ rows' = Tail(rows)
              /\ UNCHANGED <<pc, err>>
           \/ /\ ~Accepts(merged.rows \cup tx, row)
              /\ Die("UNIQUE constraint failed")
              /\ tx' = {}
              /\ UNCHANGED rows
           \/ /\ Die("scan failed")
              /\ tx' = {}
              /\ UNCHANGED rows
           \/ /\ Accepts(merged.rows \cup tx, row)
              /\ Die("insert failed")
              /\ tx' = {}
              /\ UNCHANGED rows
    /\ UNCHANGED <<langIDToScrape, runs, lang, pr, i, markupVars, store, dbs, rowsErr, merged, k>>

\* rows.Next() returns false and the loop ends: no row is left, or reading the
\* next row failed.  The code never calls rows.Err(), so in both cases it goes
\* on to tx.Commit(), and mergeDBs goes on to the next store.
mergeCommit ==
    /\ pc = "mergeRow"
    /\ \/ /\ rows = <<>>
          /\ UNCHANGED rowsErr
       \/ /\ rows # <<>>
          /\ rowsErr' = rowsErr \cup {k}
    /\ \/ /\ merged' = [merged EXCEPT !.rows = @ \cup tx]
          /\ k' = k + 1
          /\ pc' = "mergeDB"
          /\ UNCHANGED err
       \/ /\ Die("commit failed")
          /\ UNCHANGED <<merged, k>>
    /\ tx' = {}
    /\ UNCHANGED <<langIDToScrape, runs, lang, pr, i, markupVars, store, dbs, rows>>

\* the indexes in the order mergeDBs creates them
Indices == <<"search_text_index", "language_index", "category_index">>

\* the loop over the stores left one store early
mergeLoopDoneEarly ==
    /\ pc = "mergeDB"
    /\ k >= Len(dbs)
    /\ pc' = "createIndices"
    /\ UNCHANGED <<envVars, lang, pr, i, markupVars, storeVars, mergeVars>>

\* all stores are merged: mergeDBs goes on to the indexes
mergeLoopDone ==
    /\ pc = "mergeDB"
    /\ k > Len(dbs)
    /\ pc' = "createIndices"
    /\ UNCHANGED <<envVars, lang, pr, i, markupVars, storeVars, mergeVars>>

\* one db.Exec(`CREATE INDEX ...`); mergeDBs returns after the third
mergeCreateIndex ==
    /\ pc = "createIndices"
    /\ LET n == Cardinality(merged.indexes) + 1
       IN  \/ /\ merged' = [merged EXCEPT !.indexes = @ \cup {Indices[n]}]
              /\ pc' = IF n = Len(Indices) THEN "exit0" ELSE "createIndices"
              /\ UNCHANGED err
           \/ /\ Die("create index failed")
              /\ UNCHANGED merged
    /\ UNCHANGED <<langIDToScrape, runs, lang, pr, i, markupVars, storeVars, dbs, rowsErr, k, rows>>

---------------------------------------------------------------------------
(* The inputs of a merge run *)

BodyOpening == OpeningBlock(<<"O", " ", "L", "o", "r", "d">>)

BodyAllTags ==
    Join(<< CommentBlock(<<"*", "n">>),
            CommentcapsBlock(<<"#", "#", "N">>),
            PlainBlock(<<"w">>),
            TagPNoindent \o TagI \o <<"a">> \o TagIClose \o <<" ">>
               \o TagEm \o <<"b">> \o TagEmClose \o TagBr
               \o <<"<", "b", ">", "c", "<", "/", "b", ">">> \o TagPClose >>,
         <<"\n", "\n">>)

BodyNested ==
    TagP \o <<"x", " ", "<">> \o TagI \o <<"p", ">", "y">> \o TagPClose

SourceRow(id, body) ==
    [ id |-> id, category |-> NameHealing, prayerText |-> body,
      openingWords |-> <<"O">>, citation |-> <<>>, author |-> AuthorBab,
      language |-> "en" ]

\* the rows the per-language stores are made of
SourceRows ==
    { SourceRow(1, BodyOpening), SourceRow(2, BodyAllTags),
      SourceRow(2, BodyNested) }

\* the per-language stores: tables whose rows differ in their ids
SourceStores ==
    { [file |-> TRUE, table |-> TRUE, rows |-> rs] :
        rs \in { t \in SUBSET SourceRows : Cardinality(Ids(t)) = Cardinality(t) } }

\* the most stores -merge names
MaxSources == 2

\* a merged.db an earlier merge left
OldMerged ==
    [ file |-> TRUE, table |-> TRUE,
      rows |-> { MergedRow(SourceRow(9, BodyOpening)) },
      indexes |-> { Indices[n] : n \in 1..Len(Indices) } ]

InitMerge ==
    /\ pc = "mergeDBs"
    /\ langIDToScrape = 0
    /\ runs = 0
    /\ err = ""
    /\ lang = NoLanguage
    /\ pr = <<>>
    /\ i = 1
    /\ cleanedParts = <<>>
    /\ markedParts = <<>>
    /\ markedOpening = FALSE
    /\ ip = 1
    /\ store = Absent
    /\ tx = {}
    /\ dbs \in SeqsUpTo(SourceStores, MaxSources) \ {<<>>}
    /\ merged \in {NoMerged, OldMerged}
    /\ k = 1
    /\ rows = <<>>
    /\ rowsErr = {}

NextMerge ==
    \/ mergeRemove
    \/ mergeCreateTable
    \/ mergeDBBegin
    \/ mergeRow
    \/ mergeCommit
    \/ mergeLoopDone
    \/ mergeCreateIndex

SpecMerge == InitMerge /\ [][NextMerge]_vars

---------------------------------------------------------------------------
(* Claims about the merge *)

\* the 13 recognised tags
Recognised ==
    { TagP, TagPClose, TagPOpening, TagSpanVersal, TagSpanClose, TagPNoindent,
      TagBr, TagI, TagIClose, TagPComment, TagPCommentcaps, TagEm, TagEmClose }

OccursAt(s, t, n) == n + Len(t) - 1 <= Len(s) /\ SubSeq(s, n, n + Len(t) - 1) = t

\* a recognised tag occurs in s
HasRecognised(s) ==
    \E n \in 1..Len(s) : \E t \in Recognised : OccursAt(s, t, n)

\* s with every occurrence of a recognised tag deleted in one pass from the
\* left, everything else kept in order
RECURSIVE TagsDeleted(_)
TagsDeleted(s) ==
    LET occ == { n \in 1..Len(s) : \E t \in Recognised : OccursAt(s, t, n) }
    IN  IF occ = {} THEN s
        ELSE LET n == CHOOSE x \in occ : \A y \in occ : x <= y
                 t == CHOOSE t \in Recognised : OccursAt(s, t, n)
             IN  SubSeq(s, 1, n - 1)
                    \o TagsDeleted(SubSeq(s, n + Len(t), Len(s)))

\* no tag is written inside another: after every '<' comes a '>' before the
\* next '<'
Flat(s) ==
    \A n \in 1..Len(s) :
        s[n] = "<" =>
           \E c \in (n + 1)..Len(s) :
              /\ s[c] = ">"
              /\ \A m \in (n + 1)..c : s[m] # "<"

\* the rows mergeDB has inserted into merged.db, committed or not
Inserted == merged.rows \cup (IF pc = "mergeRow" THEN tx ELSE {})

\* C8, as claimed: the search text of every row mergeDB inserts is the body
\* with every occurrence of the 13 tags deleted and everything else kept in
\* order, and no recognised tag occurs in it.
C8_AllTagsDeleted ==
    \A row \in Inserted \ OldMerged.rows :
        /\ row.searchText = TagsDeleted(row.prayerText)
        /\ ~HasRecognised(row.searchText)

\* C8, amended: for every body in which no tag is written inside another, the
\* search text of the row is the body with every occurrence of the 13 tags
\* deleted and everything else, unrecognised tags included, kept in order, and
\* no recognised tag occurs in it.
C8_FlatBodiesStripped ==
    \A row \in Inserted \ OldMerged.rows :
        Flat(row.prayerText) =>
           /\ row.searchText = TagsDeleted(row.prayerText)
           /\ ~HasRecognised(row.searchText)

\* a row whose body holds each of the 13 tags and a <b> element was merged: the
\* <b> element is still there
C8_Witness ==
    /\ pc = "exit0"
    /\ \E row \in merged.rows :
          /\ row.prayerText = BodyAllTags
          /\ \A t \in Recognised \ {TagPOpening, TagSpanVersal, TagSpanClose} :
                \E n \in 1..Len(BodyAllTags) : OccursAt(BodyAllTags, t, n)
          /\ row.searchText =
                <<"n", "\n", "\n", "N", "\n", "\n", "w", "\n", "\n", "a", " ",
                  "b", "<", "b", ">", "c", "<", "/", "b", ">">>
    /\ \E row \in merged.rows :
          /\ row.prayerText = BodyOpening
          /\ row.searchText = <<"O", " ", "L", "o", "r", "d">>

\* the number of the maximal runs of bytes of s that are no white space
WordCount(s) ==
    Cardinality({ n \in 1..Len(s) :
                     /\ s[n] \notin WhiteSpace
                     /\ (n = 1 \/ s[n - 1] \in WhiteSpace) })

RECURSIVE SumRows(_)
SumRows(stores) ==
    IF stores = <<>> THEN 0
    ELSE Cardinality(Head(stores).rows) + SumRows(Tail(stores))

ListedRows == UNION { dbs[n].rows : n \in 1..Len(dbs) }

\* the merge run has ended
MergeEnded == pc \in {"exit0", "exit1"} /\ dbs # <<>>

\* a failure of the storage, which no list of stores causes or prevents
StorageFailures ==
    {"table prayers already exists", "create table failed", "query failed",
     "begin failed", "scan failed", "insert failed", "commit failed",
     "create index failed"}

\* merged.db holds one row for every row of the stores, with the store's fields
\* and the two derived ones
MergedAll ==
    /\ Cardinality(merged.rows) = SumRows(dbs)
    /\ \A row \in ListedRows :
          \E m \in merged.rows :
             /\ \A f \in DOMAIN row : m[f] = row[f]
             /\ m.searchText = SearchText(row.prayerText)
             /\ m.wordCount = WordCount(m.searchText)

\* no id is held by two rows of the listed stores
IdsUniqueAcross == Cardinality(Ids(ListedRows)) = SumRows(dbs)

\* every query was read to its last row
ReadToTheEnd == rowsErr = {}

MergedOf(S) == { MergedRow(row) : row \in UNION { dbs[m].rows : m \in S } }

\* what ends the merge of a store at one of its rows
RowFailures == {"scan failed", "insert failed", "UNIQUE constraint failed"}

\* C15: the rows of a store become visible in merged.db all together, at the
\* store's commit, or not at all: while the stores are merged, and after the
\* merge of store k has failed at a row, merged.db holds the rows of some of
\* the stores before store k, each of them whole, and no row besides.  When
\* store k is the first whose merge fails at a row, merged.db holds exactly
\* the rows of all the stores before it and mergeDB's open transaction is
\* lost.
C15_FailedSourceLeavesEarlierRows ==
    (\/ pc \in {"mergeDB", "mergeRow", "createIndices"}
     \/ pc = "exit1" /\ err \in RowFailures)
    => /\ merged.table
       /\ \E S \in SUBSET (1..(k - 1)) : merged.rows = MergedOf(S)
       /\ (pc = "exit1" /\ ReadToTheEnd) =>
             (merged.rows = MergedOf(1..(k - 1)) /\ tx = {})

\* the three indexes of merged.db
AllIndices == { Indices[n] : n \in 1..Len(Indices) }

\* the transaction of every store of the list has committed
AllCommitted == k > Len(dbs)

\* what ends the run inside mergeDB
SourceFailures ==
    RowFailures \cup {"query failed", "begin failed", "commit failed"}

\* C16: in every state of a merge run, merged.db as the run builds it (not the
\* file an earlier merge left, for as long as that file is there) has an index
\* only if the transaction of every store has committed; after a run that
\* ends without an error it has exactly the three indexes, and after a run
\* that ends inside the merge of a store it has none.
C16_IndicesAfterAllCommits ==
    /\ (merged.indexes # {} /\ merged # OldMerged) =>
          /\ AllCommitted
          /\ pc \in {"createIndices", "exit0", "exit1"}
          /\ merged.indexes \subseteq AllIndices
    /\ (pc = "exit0" /\ dbs # <<>>) =>
          /\ merged.indexes = AllIndices
          /\ Cardinality(merged.indexes) = 3
          /\ AllCommitted
    /\ (pc = "exit1" /\ err \in SourceFailures) =>
          merged.indexes = {}

\* two stores were merged and the three indexes built after them
C16_Witness ==
    /\ pc = "exit0"
    /\ Len(dbs) = 2
    /\ k = 3
    /\ Cardinality(merged.rows) >= 2
    /\ merged.indexes =
          {"search_text_index", "language_index", "category_index"}

---------------------------------------------------------------------------
(* main: the choice of the mode *)

\* main after flag.Parse().  dbs stands for the -merge flag: it is <<>> when
\* the flag is the empty string, and the stores the flag names otherwise.
main ==
    /\ pc = "main"
    /\ IF langIDToScrape >= 1
       THEN /\ pc' = "lookUpLanguage"
            /\ UNCHANGED err
       ELSE IF dbs # <<>>
       THEN /\ pc' = "mergeDBs"
            /\ UNCHANGED err
       ELSE Die("You need to specify a command")
    /\ UNCHANGED <<langIDToScrape, runs, lang, pr, i, markupVars, storeVars, mergeVars>>

\* a -merge flag that names one store
MergeOne == << [file |-> TRUE, table |-> TRUE, rows |-> {SourceRow(1, BodyOpening)}] >>

\* the command lines: -language alone or with -merge, -merge alone, neither
InitMain ==
    /\ pc = "main"
    /\ \/ /\ langIDToScrape \in {-1} \cup LangIDs
          /\ dbs \in {<<>>, MergeOne}
          /\ merged = NoMerged
       \/ /\ langIDToScrape = 0
          /\ dbs \in SeqsUpTo(SourceStores, MaxSources)
          /\ merged \in {NoMerged, OldMerged}
    /\ runs = 0
    /\ err = ""
    /\ lang = NoLanguage
    /\ pr = <<>>
    /\ i = 1
    /\ cleanedParts = <<>>
    /\ markedParts = <<>>
    /\ markedOpening = FALSE
    /\ ip = 1
    /\ store \in {Absent, OldStore}
    /\ tx = {}
    /\ k = 1
    /\ rows = <<>>
    /\ rowsErr = {}

NextMain ==
    \/ main
    \/ Next
    \/ NextMerge

SpecMain == InitMain /\ [][NextMain]_vars

---------------------------------------------------------------------------
(* Claims about main *)

InScrape ==
    pc \in {"lookUpLanguage", "prayersForLanguage", "categorize", "markup",
            "markupPart", "populateDatabase", "createTable", "begin", "insert"}

InMerge ==
    pc \in {"mergeDBs", "mergeCreateTable", "mergeDB", "mergeRow",
            "createIndices"}

LanguageGiven == langIDToScrape >= 1

MergeGiven == dbs # <<>>

\* C12: scrape mode runs only when a positive language id is given and no
\* merge list; merge mode runs only when a merge list is given and no language
\* id; when neither or both are given the program has exited with status 1 on
\* the usage error as soon as main has chosen, and has run neither mode.
C12_ExactlyOneMode ==
    /\ InScrape => (LanguageGiven /\ ~MergeGiven)
    /\ InMerge => (MergeGiven /\ ~LanguageGiven)
    /\ (pc # "main" /\ (LanguageGiven <=> MergeGiven)) =>
          /\ pc = "exit1"
          /\ err = "You need to specify a command"
          /\ runs = 0
          /\ store \in {Absent, OldStore}
          /\ merged \in {NoMerged, OldMerged}

===========================================================================
